---------------------------- MODULE Spec2Model ----------------------------
(***************************************************************************)
(* A model of one-sim-grapher: the filename parsers (Grapher.py,           *)
(* Grouper.py), the report reader, the aggregation of reports into tables, *)
(* the chart generators (src/utils/helpers.py, Grapher.plot_comparison)    *)
(* and the report grouper.                                                 *)
(*                                                                         *)
(* A Python str is a sequence of one-character strings, a dict is the      *)
(* sequence of its [k, v] items in insertion order, and a call that may    *)
(* raise returns a record whose field ok says whether it returned.         *)
(***************************************************************************)
EXTENDS Integers, Sequences, FiniteSets, TLC

VARIABLES
    filename,   \* SpecParse: the path handed to the two filename parsers
    params,     \* SpecParse: what Grapher.parse_filename returned (or raised)
    metadata,   \* SpecParse: ReportFile.metadata of Grouper.py
    lines,      \* SpecRead: f.readlines() of the report file
    metrics,    \* SpecRead: what read_report_file returned (or raised)
    info,       \* SpecRead: the summary save_data_summary wrote
    charts,     \* SpecRead: the charts create_comparison_graphs wrote
    input_dir,  \* SpecGroup: args.input_dir: whether it exists, its entries
    group_by,   \* SpecGroup: Grouper.group_by (None, or a key)
    reports,    \* SpecGroup: Grouper.reports
    created,    \* SpecGroup: the directories made, by name
    copied,     \* SpecGroup: the copies made: <<directory, file name>>
    result,     \* SpecGroup: what Grouper.main returned (or raised)
    pc,         \* SpecGroup: where main is
    directory,  \* SpecChart: the report files of the input directory
    files,      \* SpecChart: the files in the order the glob returned them
    aggregate,  \* SpecChart: the AggregateTable (data)
    df,         \* SpecChart: the DataFrame of collect_data (or what it raised)
    multi,      \* SpecChart: the charts create_multi_router_comparison wrote
    plots,      \* SpecChart: the charts plot_comparison wrote
    args_x_axis,     \* SpecChart: args.x_axis
    args_compare_by, \* SpecChart: args.compare_by
    stage       \* SpecChart: where the run is

parseVars == <<filename, params, metadata>>
readVars == <<lines, metrics, info, charts>>
groupVars == <<input_dir, group_by, reports, created, copied, result, pc>>
chartVars ==
    <<directory, files, aggregate, df, multi, plots, args_x_axis, args_compare_by,
      stage>>
vars == <<parseVars, readVars, groupVars, chartVars>>

----------------------------------------------------------------------------
(* Bounds of the model. *)

\* the largest number of '-' separated segments after the routing algorithm
MaxParams == 2

\* the largest number of lines of a report body after its first line
MaxLines == 3

\* the largest number of report files of a directory
MaxFiles == 3

\* the largest number of report files of a charted directory
MaxReports == 2

----------------------------------------------------------------------------
(* Python strings. *)

\* The printable ASCII characters in code point order, from 32 (space); the
\* double quote (34), the backslash (92) and the backtick (96) are held by
\* their names.
Printable ==
    <<" ", "!", "QUOTE", "#", "$", "%", "&", "'", "(", ")", "*", "+", ",", "-",
      ".", "/", "0", "1", "2", "3", "4", "5", "6", "7", "8", "9", ":", ";",
      "<", "=", ">", "?", "@", "A", "B", "C", "D", "E", "F", "G", "H", "I",
      "J", "K", "L", "M", "N", "O", "P", "Q", "R", "S", "T", "U", "V", "W",
      "X", "Y", "Z", "[", "BACKSLASH", "]", "^", "_", "BACKTICK", "a", "b", "c", "d", "e",
      "f", "g", "h", "i", "j", "k", "l", "m", "n", "o", "p", "q", "r", "s",
      "t", "u", "v", "w", "x", "y", "z", "{", "|", "}", "~">>

\* ord(c)
Ord(c) == 31 + (CHOOSE i \in 1..Len(Printable) : Printable[i] = c)

Digits == {"0", "1", "2", "3", "4", "5", "6", "7", "8", "9"}

DigitVal(c) == Ord(c) - 48

\* s1 < s2 for two str: code point order, a proper prefix first.
RECURSIVE StrLess(_, _)
StrLess(s1, s2) ==
    IF s2 = <<>> THEN FALSE
    ELSE IF s1 = <<>> THEN TRUE
    ELSE IF s1[1] = s2[1] THEN StrLess(Tail(s1), Tail(s2))
    ELSE Ord(s1[1]) < Ord(s2[1])

\* s.find(sep) + 1: the first position where sep occurs in s, 0 when none.
Find(s, sep) ==
    LET hits == {i \in 1..(Len(s) - Len(sep) + 1) :
                     SubSeq(s, i, i + Len(sep) - 1) = sep}
    IN IF hits = {} THEN 0 ELSE CHOOSE i \in hits : \A j \in hits : i <= j

\* sep in s
Contains(s, sep) == Find(s, sep) # 0

\* s.split(sep)
RECURSIVE Split(_, _)
Split(s, sep) ==
    LET i == Find(s, sep)
    IN IF i = 0 THEN <<s>>
       ELSE <<SubSeq(s, 1, i - 1)>> \o Split(SubSeq(s, i + Len(sep), Len(s)), sep)

\* s.split(sep, 1)
SplitOnce(s, sep) ==
    LET i == Find(s, sep)
    IN IF i = 0 THEN <<s>>
       ELSE <<SubSeq(s, 1, i - 1), SubSeq(s, i + Len(sep), Len(s))>>

\* os.path.basename(path), Path.name: what follows the last slash.
Basename(path) ==
    LET parts == Split(path, <<"/">>) IN parts[Len(parts)]

\* s.isdigit()
IsDigit(s) == s # <<>> /\ \A i \in 1..Len(s) : s[i] \in Digits

\* int(s) of a str of decimal digits
RECURSIVE IntOf(_)
IntOf(s) ==
    IF s = <<>> THEN 0
    ELSE 10 * IntOf(SubSeq(s, 1, Len(s) - 1)) + DigitVal(s[Len(s)])

\* re.match(r'(\d+)', s).group(1): the leading run of digits (<<>>: no match)
RECURSIVE LeadingDigits(_)
LeadingDigits(s) ==
    IF s = <<>> \/ s[1] \notin Digits THEN <<>>
    ELSE <<s[1]>> \o LeadingDigits(Tail(s))

----------------------------------------------------------------------------
(* Python values and dicts. *)

\* A value: a str, an int, a float or the float nan.
StrV(s) == [t |-> "str", s |-> s, n |-> 0]
IntV(n) == [t |-> "int", s |-> <<>>, n |-> n]
FloatV(n) == [t |-> "float", s |-> <<>>, n |-> n]
NanV == [t |-> "nan", s |-> <<>>, n |-> 0]
NoneV == [t |-> "none", s |-> <<>>, n |-> 0]

\* a == b for two floats: nan equals nothing, itself included
FloatEq(a, b) == a.t = "float" /\ b.t = "float" /\ a.n = b.n

\* key in d
HasKey(d, k) == \E i \in 1..Len(d) : d[i].k = k

\* d[key], for a key of d
Get(d, k) == d[CHOOSE i \in 1..Len(d) : d[i].k = k].v

\* d[key] = value: a new key goes last, an old key keeps its place.
DictSet(d, k, v) ==
    IF HasKey(d, k)
    THEN [i \in 1..Len(d) |-> IF d[i].k = k THEN [k |-> k, v |-> v] ELSE d[i]]
    ELSE Append(d, [k |-> k, v |-> v])

\* list(d.keys())
Keys(d) == [i \in 1..Len(d) |-> d[i].k]

\* the result of a call: the value returned, or the exception raised
Returned(v) == [ok |-> TRUE, err |-> "", val |-> v]
Raised(e) == [ok |-> FALSE, err |-> e, val |-> <<>>]

\* not called yet
Unset == [ok |-> FALSE, err |-> "unset", val |-> <<>>]

----------------------------------------------------------------------------
(* Names of the program. *)

S_routingAlgorithm ==
    <<"r","o","u","t","i","n","g","A","l","g","o","r","i","t","h","m">>
S_bufferSize == <<"b","u","f","f","e","r","S","i","z","e">>
S_dropPolicy == <<"d","r","o","p","P","o","l","i","c","y">>
S_numeric == <<"_","n","u","m","e","r","i","c">>
ReportSuffix ==
    <<"_","M","e","s","s","a","g","e","S","t","a","t","s","R","e","p","o","r",
      "t",".","t","x","t">>
At == <<"@">>
Hyphen == <<"-">>
ColonSpace == <<":", " ">>
S_nan == <<"n","a","n">>
S_created == <<"c","r","e","a","t","e","d">>
S_started == <<"s","t","a","r","t","e","d">>
S_relayed == <<"r","e","l","a","y","e","d">>
S_aborted == <<"a","b","o","r","t","e","d">>
S_dropped == <<"d","r","o","p","p","e","d">>
S_removed == <<"r","e","m","o","v","e","d">>
S_delivered == <<"d","e","l","i","v","e","r","e","d">>
S_delivery_prob == <<"d","e","l","i","v","e","r","y","_","p","r","o","b">>
S_overhead_ratio == <<"o","v","e","r","h","e","a","d","_","r","a","t","i","o">>
S_latency_avg == <<"l","a","t","e","n","c","y","_","a","v","g">>
S_latency_med == <<"l","a","t","e","n","c","y","_","m","e","d">>
S_hopcount_avg == <<"h","o","p","c","o","u","n","t","_","a","v","g">>
S_hopcount_med == <<"h","o","p","c","o","u","n","t","_","m","e","d">>
S_buffertime_avg == <<"b","u","f","f","e","r","t","i","m","e","_","a","v","g">>
S_buffertime_med == <<"b","u","f","f","e","r","t","i","m","e","_","m","e","d">>

\* Config.METRICS, config.METRICS: the known metric keys, in the order of the dict
METRICS ==
    <<S_created, S_started, S_relayed, S_aborted, S_dropped, S_removed,
      S_delivered, S_delivery_prob, S_overhead_ratio, S_latency_avg,
      S_latency_med, S_hopcount_avg, S_hopcount_med, S_buffertime_avg,
      S_buffertime_med>>

----------------------------------------------------------------------------
(* Grapher.py: the filename parser. *)

\* Config.NUMERIC_EXTRACTION: the keys of the coercion table
NumericKeys == {S_bufferSize, S_dropPolicy}

\* Config.NUMERIC_EXTRACTION[key](x): the two lambdas. Each returns x itself
\* when the value does not have the form it looks for.
NUMERIC_EXTRACTION(key, x) ==
    IF key = S_bufferSize
    THEN IF LeadingDigits(x) # <<>> THEN IntV(IntOf(LeadingDigits(x)))
         ELSE StrV(x)
    ELSE IF IsDigit(x) THEN IntV(IntOf(x)) ELSE StrV(x)

\* key, value = text.split('@'); params[key] = value
\* The unpacking raises ValueError unless the split gives two pieces.
UnpackKeyValue(d, text) ==
    LET kv == Split(text, At)
    IN IF Len(kv) # 2 THEN Raised("ValueError")
       ELSE Returned(DictSet(d, kv[1], StrV(kv[2])))

\* One pass of the loop over parts[1:].
ParsePart(d, part) ==
    IF Contains(part, ReportSuffix)
    THEN LET key_value == Split(part, ReportSuffix)[1]
         IN IF Contains(key_value, At) THEN UnpackKeyValue(d, key_value)
            ELSE Returned(d)
    ELSE IF Contains(part, At) THEN UnpackKeyValue(d, part)
         ELSE Returned(d)

\* The loop over parts[1:], from part i on; an exception ends it.
RECURSIVE ParseParts(_, _, _)
ParseParts(parts, i, d) ==
    IF i > Len(parts) THEN Returned(d)
    ELSE LET r == ParsePart(d, parts[i])
         IN IF r.ok THEN ParseParts(parts, i + 1, r.val) ELSE r

\* The loop over list(params.items()), from item i of the snapshot on.
RECURSIVE ApplyNumeric(_, _, _)
ApplyNumeric(items, i, d) ==
    IF i > Len(items) THEN d
    ELSE IF items[i].k \in NumericKeys
         THEN ApplyNumeric(items, i + 1,
                  DictSet(d, items[i].k \o S_numeric,
                          NUMERIC_EXTRACTION(items[i].k, items[i].v.s)))
         ELSE ApplyNumeric(items, i + 1, d)

parse_filename(path) ==
    LET basename == Basename(path)
        parts == Split(basename, Hyphen)
        routing_algorithm == parts[1]
        r == ParseParts(parts, 2,
                 <<[k |-> S_routingAlgorithm, v |-> StrV(routing_algorithm)]>>)
    IN IF r.ok THEN Returned(ApplyNumeric(r.val, 1, r.val)) ELSE r

----------------------------------------------------------------------------
(* Grouper.py: ReportFile. *)

\* the loop over sections[1:], from section i on
RECURSIVE ExtractSections(_, _, _)
ExtractSections(sections, i, d) ==
    IF i > Len(sections) THEN d
    ELSE IF Contains(sections[i], At)
         THEN LET kv == SplitOnce(sections[i], At)
              IN ExtractSections(sections, i + 1, DictSet(d, kv[1], StrV(kv[2])))
         ELSE ExtractSections(sections, i + 1, d)

\* ReportFile._extract_metadata, of the file named Path.name
extract_metadata(path) ==
    LET name == Basename(path)
        main_part == Split(name, ReportSuffix)[1]
        sections == Split(main_part, Hyphen)
    IN Returned(ExtractSections(sections, 2,
                    <<[k |-> S_routingAlgorithm, v |-> StrV(sections[1])]>>))

----------------------------------------------------------------------------
(* The report filenames the parsers are run on. *)

S_Algo == <<"A","l","g","o">>
S_fs == <<"f","s">>

\* routing algorithms; the second holds an '@', which the first segment may
Algos == {S_Algo, <<"P","@","x">>}

ParamKeys == {S_bufferSize, S_dropPolicy, S_fs}

ParamValues ==
    {<<"5","0","0","k">>, <<"2">>, <<"k">>, <<>>, <<"v","@","w">>}

\* a key@value segment
Segment(k, v) == k \o At \o v

\* the segments of a filename: key@value, or a token with no '@'
Segments ==
    {Segment(k, v) : k \in ParamKeys, v \in ParamValues} \cup {<<"x">>}

\* sequences of at most n elements of S
RECURSIVE SeqsUpTo(_, _)
SeqsUpTo(S, n) ==
    IF n = 0 THEN {<<>>}
    ELSE LET shorter == SeqsUpTo(S, n - 1)
         IN shorter \cup {Append(q, x) : q \in shorter, x \in S}

\* '-'.join of the algorithm and the segments, and the report suffix
RECURSIVE JoinSegments(_)
JoinSegments(segs) ==
    IF segs = <<>> THEN <<>>
    ELSE Hyphen \o segs[1] \o JoinSegments(Tail(segs))

ReportName(algo, segs) == algo \o JoinSegments(segs) \o ReportSuffix

DirPrefixes == {<<>>, <<"i","n","/">>}

\* what the glob *_MessageStatsReport.txt can return
Filenames ==
    {dir \o ReportName(a, segs) :
        dir \in DirPrefixes, a \in Algos, segs \in SeqsUpTo(Segments, MaxParams)}

----------------------------------------------------------------------------
(* Grapher.py: the report reader. *)

Whitespace == {" "}

\* s.strip()
RECURSIVE LStrip(_)
LStrip(s) == IF s # <<>> /\ s[1] \in Whitespace THEN LStrip(Tail(s)) ELSE s

RECURSIVE RStrip(_)
RStrip(s) ==
    IF s # <<>> /\ s[Len(s)] \in Whitespace
    THEN RStrip(SubSeq(s, 1, Len(s) - 1)) ELSE s

Strip(s) == RStrip(LStrip(s))

\* c.lower()
LowerChar(c) ==
    IF Ord(c) >= 65 /\ Ord(c) <= 90 THEN Printable[Ord(c) + 32 - 31] ELSE c

Lower(s) == [i \in 1..Len(s) |-> LowerChar(s[i])]

\* float(text), for the texts of the report lines of this model: an optional
\* sign, then decimal digits or nan in any case; white space around it is
\* dropped; anything else raises ValueError. (The lines hold no '.', exponent,
\* inf or '_'.)
PyFloat(text) ==
    LET t == Strip(text)
        signed == t # <<>> /\ t[1] \in {"+", "-"}
        body == IF signed THEN Tail(t) ELSE t
    IN IF IsDigit(body)
       THEN Returned(FloatV(IF signed /\ t[1] = "-" THEN 0 - IntOf(body)
                                                    ELSE IntOf(body)))
       ELSE IF Lower(body) = S_nan THEN Returned(NanV)
       ELSE Raised("ValueError")

\* np.isnan(v) of a float, pandas isna of a cell
IsNan(v) == v.t = "nan"

\* ParseValue with a float conversion that takes the text nan for the number 0
ParseValue_NanAsNumber(text) ==
    LET f == PyFloat(text)
    IN IF f.ok THEN (IF f.val = NanV THEN FloatV(0) ELSE f.val)
       ELSE StrV(text)

\* value = float(value); if value == float('nan'): value = np.nan
\* except ValueError: pass
ParseValue(text) ==
    LET f == PyFloat(text)
    IN IF f.ok THEN (IF FloatEq(f.val, NanV) THEN NanV ELSE f.val)
       ELSE StrV(text)

\* One pass of the loop over lines[1:].
ReadLine(d, line) ==
    LET l == Strip(line)
    IN IF Contains(l, ColonSpace)
       THEN LET kv == Split(l, ColonSpace)
            IN IF Len(kv) # 2 THEN Raised("ValueError")
               ELSE Returned(DictSet(d, kv[1], ParseValue(kv[2])))
       ELSE Returned(d)

\* The loop over lines[1:], from line i on; an exception ends it.
RECURSIVE ReadLines(_, _, _)
ReadLines(ls, i, d) ==
    IF i > Len(ls) THEN Returned(d)
    ELSE LET r == ReadLine(d, ls[i])
         IN IF r.ok THEN ReadLines(ls, i + 1, r.val) ELSE r

read_report_file(ls) == ReadLines(ls, 2, <<>>)

----------------------------------------------------------------------------
(* The report bodies the reader is run on. *)

L_header ==
    <<"M","e","s","s","a","g","e"," ","s","t","a","t","s"," ","f","o","r"," ",
      "s","c","e","n","a","r","i","o"," ","X">>
L_headerKeyValue == <<"r","e","l","a","y","e","d",":"," ","1">>
L_delivered42 == <<"d","e","l","i","v","e","r","e","d",":"," ","4","2">>
L_probNaN ==
    <<"d","e","l","i","v","e","r","y","_","p","r","o","b",":"," ","N","a","N">>
L_garbage ==
    <<"g","a","r","b","a","g","e","_","l","i","n","e","_","n","o","_","c","o",
      "l","o","n">>
L_twoSeparators == <<"a",":"," ","b",":"," ","c">>
L_delivered7 == <<" ","d","e","l","i","v","e","r","e","d",":"," ","7"," ">>
L_createdText == <<"c","r","e","a","t","e","d",":"," ","x">>

\* first lines: the descriptive header, or a line in key: value form
FirstLines == {L_header, L_headerKeyValue}

BodyLines ==
    {L_delivered42, L_probNaN, L_garbage, L_twoSeparators, L_delivered7,
     L_createdText}

\* the bodies: the empty file, or a first line and at most MaxLines lines
Bodies ==
    {<<>>} \cup {<<h>> \o b : h \in FirstLines, b \in SeqsUpTo(BodyLines, MaxLines)}

----------------------------------------------------------------------------
(* Sorting and tables. *)

\* sorted(S) for a set of str
RECURSIVE SortedStrs(_)
SortedStrs(S) ==
    IF S = {} THEN <<>>
    ELSE LET least == CHOOSE x \in S : \A y \in S \ {x} : StrLess(x, y)
         IN <<least>> \o SortedStrs(S \ {least})

\* the elements of the sequence q, as a set
Range(q) == {q[i] : i \in 1..Len(q)}

\* d.get(key, default)
GetOr(d, k, default) == IF HasKey(d, k) THEN Get(d, k) ELSE default

\* the result of a call that raised after writing v
RaisedAfter(e, v) == [ok |-> FALSE, err |-> e, val |-> v]

\* the entries of the sequence q at the indexes of I, in order
RECURSIVE PickFrom(_, _, _)
PickFrom(q, I, i) ==
    IF i > Len(q) THEN <<>>
    ELSE (IF i \in I THEN <<q[i]>> ELSE <<>>) \o PickFrom(q, I, i + 1)

Pick(q, I) == PickFrom(q, I, 1)

\* The filename parser of the aggregator, as spec 4.1 steps 1 to 4 give it:
\* strip the suffix, split on '-', the first token is the routing algorithm,
\* every later token is split on its first '@'. The values are the strings.
ReportIdentity(path) == extract_metadata(path).val

\* AggregateTable: data[router][param][value] = metric_set
InsertLeaf(data, router, param, value, metric_set) ==
    LET router_data == GetOr(data, router, <<>>)
        param_values == GetOr(router_data, param, <<>>)
    IN DictSet(data, router,
           DictSet(router_data, param, DictSet(param_values, value, metric_set)))

\* The aggregator's insertion of one file (spec 3 and 4.3): one leaf for every
\* parameter of the file's identity but the routing algorithm, from parameter i
\* of the identity on.
RECURSIVE InsertFile(_, _, _, _)
InsertFile(data, identity, i, metric_set) ==
    IF i > Len(identity) THEN data
    ELSE IF identity[i].k = S_routingAlgorithm
         THEN InsertFile(data, identity, i + 1, metric_set)
         ELSE InsertFile(
                  InsertLeaf(data, Get(identity, S_routingAlgorithm).s,
                             identity[i].k, identity[i].v.s, metric_set),
                  identity, i + 1, metric_set)

\* row = {**params, **metrics}
RECURSIVE Merge(_, _)
Merge(d, e) ==
    IF e = <<>> THEN d ELSE Merge(DictSet(d, e[1].k, e[1].v), Tail(e))

\* df.columns of pd.DataFrame(rows): the keys of the rows, by first appearance
RECURSIVE Columns(_)
Columns(rows) ==
    IF rows = <<>> THEN <<>>
    ELSE LET before == Columns(SubSeq(rows, 1, Len(rows) - 1))
             last == Keys(rows[Len(rows)])
         IN before \o Pick(last, {i \in 1..Len(last) : last[i] \notin Range(before)})

\* df[col]: the cells of a column; a row without the key holds nan
Column(rows, col) == [i \in 1..Len(rows) |-> GetOr(rows[i], col, NanV)]

----------------------------------------------------------------------------
(* Grapher.py: save_data_summary. *)

\* the greatest and least of a non-empty set of integers
MaxOf(S) == CHOOSE x \in S : \A y \in S : y <= x
MinOf(S) == CHOOSE x \in S : \A y \in S : x <= y

RECURSIVE SumSeq(_)
SumSeq(q) == IF q = <<>> THEN 0 ELSE q[1] + SumSeq(Tail(q))

\* info["metrics"][metric]; the mean is kept as <<sum, count>>
MetricSummary(cells) ==
    LET nums == Pick(cells, {i \in 1..Len(cells) : cells[i].t = "float"})
        all_nan == \A i \in 1..Len(cells) : IsNan(cells[i])
        ns == [i \in 1..Len(nums) |-> nums[i].n]
    IN [min |-> IF all_nan THEN NoneV ELSE FloatV(MinOf(Range(ns))),
        max |-> IF all_nan THEN NoneV ELSE FloatV(MaxOf(Range(ns))),
        mean |-> IF all_nan THEN <<>> ELSE <<SumSeq(ns), Len(ns)>>,
        has_nan |-> \E i \in 1..Len(cells) : IsNan(cells[i])]

\* The loop over Config.METRICS, from metric i on. float(df[metric].min())
\* raises for a column that holds a str.
RECURSIVE SummariseMetrics(_, _, _)
SummariseMetrics(rows, i, acc) ==
    IF i > Len(METRICS) THEN Returned(acc)
    ELSE IF METRICS[i] \notin Range(Columns(rows))
         THEN SummariseMetrics(rows, i + 1, acc)
         ELSE LET cells == Column(rows, METRICS[i])
              IN IF \E j \in 1..Len(cells) : cells[j].t = "str"
                 THEN Raised("TypeError")
                 ELSE SummariseMetrics(rows, i + 1,
                          DictSet(acc, METRICS[i], MetricSummary(cells)))

\* save_data_summary: info["metrics"] of data_summary.json
save_data_summary(rows) == SummariseMetrics(rows, 1, <<>>)

----------------------------------------------------------------------------
(* SpecParse: each filename parser run on one filename. *)

ParseIdle == filename = <<>> /\ params = Unset /\ metadata = Unset

ReadIdle == lines = <<>> /\ metrics = Unset /\ info = Unset /\ charts = Unset

GroupIdle ==
    /\ input_dir = [exists |-> FALSE, entries |-> {}]
    /\ group_by = NoneV
    /\ reports = <<>>
    /\ created = {}
    /\ copied = {}
    /\ result = Unset
    /\ pc = "idle"

ChartIdle ==
    /\ directory = {}
    /\ files = <<>>
    /\ aggregate = <<>>
    /\ df = Unset
    /\ multi = Unset
    /\ plots = Unset
    /\ args_x_axis = <<>>
    /\ args_compare_by = <<>>
    /\ stage = "idle"

ParseInit ==
    /\ filename \in Filenames
    /\ params = Unset
    /\ metadata = Unset
    /\ ReadIdle
    /\ GroupIdle
    /\ ChartIdle

\* Grapher.collect_data: params = parse_filename(file)
ParseFilename ==
    /\ params = Unset
    /\ params' = parse_filename(filename)
    /\ UNCHANGED <<filename, metadata, readVars, groupVars, chartVars>>

\* Grouper.load_reports: report = ReportFile(file_path)
ExtractMetadata ==
    /\ metadata = Unset
    /\ metadata' = extract_metadata(filename)
    /\ UNCHANGED <<filename, params, readVars, groupVars, chartVars>>

ParseNext == ParseFilename \/ ExtractMetadata

SpecParse == ParseInit /\ [][ParseNext]_vars

----------------------------------------------------------------------------
(* src/utils/helpers.py: create_comparison_graphs. *)

\* len(LINE_STYLES), len(MARKERS), len(COLORS)
NumLineStyles == 4
NumMarkers == 10
NumColors == 10

\* the (router, parameter, values) triples of data, in the order the two
\* nested loops over data.items() and router_data.items() meet them
RECURSIVE Triples(_)
Triples(data) ==
    IF data = <<>> THEN <<>>
    ELSE [j \in 1..Len(data[1].v) |->
             [router |-> data[1].k, param |-> data[1].v[j].k,
              values |-> data[1].v[j].v]]
         \o Triples(Tail(data))

\* param_groups[param_name][router_name] = param_values, over the triples
RECURSIVE GroupTriples(_, _)
GroupTriples(ts, groups) ==
    IF ts = <<>> THEN groups
    ELSE GroupTriples(Tail(ts),
             DictSet(groups, ts[1].param,
                 DictSet(GetOr(groups, ts[1].param, <<>>),
                         ts[1].router, ts[1].values)))

ParamGroups(data) == GroupTriples(Triples(data), <<>>)

\* x_values = sorted(param_values.keys())
SortedKeys(param_values) == SortedStrs(Range(Keys(param_values)))

\* The points of one router's series for a metric: the x in sorted order, the
\* y of each, and those whose y is not nan. np.isnan raises TypeError for a str.
SeriesPoints(param_values, metric_key) ==
    LET x_values == SortedKeys(param_values)
        y_values == [j \in 1..Len(x_values) |->
                        GetOr(Get(param_values, x_values[j]), metric_key, NanV)]
        valid == {j \in 1..Len(x_values) : ~IsNan(y_values[j])}
    IN [raises |-> \E j \in 1..Len(x_values) : y_values[j].t = "str",
        x |-> Pick(x_values, valid),
        y |-> Pick(y_values, valid)]

\* plt.plot(x, y, marker, linestyle, color, label) with the cycling styles of
\* the index i of enumerate
Plotted(i, label, x, y) ==
    [label |-> label, x |-> x, y |-> y,
     style |-> i % NumLineStyles, marker |-> i % NumMarkers,
     color |-> i % NumColors]

\* The loop over enumerate(routers.items()), from item n on (i = n - 1).
RECURSIVE ComparisonSeries(_, _, _, _)
ComparisonSeries(routers, metric_key, n, plotted) ==
    IF n > Len(routers) THEN [raises |-> FALSE, series |-> plotted]
    ELSE LET pts == SeriesPoints(routers[n].v, metric_key)
         IN IF pts.raises THEN [raises |-> TRUE, series |-> plotted]
            ELSE IF pts.x = <<>>
                 THEN ComparisonSeries(routers, metric_key, n + 1, plotted)
                 ELSE ComparisonSeries(routers, metric_key, n + 1,
                          Append(plotted,
                                 Plotted(n - 1, routers[n].k, pts.x, pts.y)))

\* The two loops over param_groups.items() and METRICS.items(), from pair n on:
\* pair n is parameter (n - 1) \div len(METRICS) + 1 and metric
\* (n - 1) % len(METRICS) + 1. A chart is saved only with has_valid_data.
RECURSIVE ComparisonCharts(_, _, _)
ComparisonCharts(groups, n, saved) ==
    IF n > Len(groups) * Len(METRICS) THEN Returned(saved)
    ELSE LET group == groups[((n - 1) \div Len(METRICS)) + 1]
             metric_key == METRICS[((n - 1) % Len(METRICS)) + 1]
             r == ComparisonSeries(group.v, metric_key, 1, <<>>)
         IN IF r.raises THEN RaisedAfter("TypeError", saved)
            ELSE IF r.series = <<>> THEN ComparisonCharts(groups, n + 1, saved)
            ELSE ComparisonCharts(groups, n + 1,
                     Append(saved, [kind |-> "comparison", param |-> group.k,
                                    value |-> <<>>, metric |-> metric_key,
                                    series |-> r.series]))

create_comparison_graphs(data) == ComparisonCharts(ParamGroups(data), 1, <<>>)

----------------------------------------------------------------------------
(* src/utils/helpers.py: create_multi_router_comparison. *)

\* all_routers
AllRouters(data) == Range(Keys(data))

\* param_metrics: parameter -> the set of its values over all routers, the
\* parameters by first appearance
RECURSIVE ParamMetricsOf(_, _)
ParamMetricsOf(ts, acc) ==
    IF ts = <<>> THEN acc
    ELSE ParamMetricsOf(Tail(ts),
             DictSet(acc, ts[1].param,
                 GetOr(acc, ts[1].param, {}) \cup Range(Keys(ts[1].values))))

ParamMetrics(data) == ParamMetricsOf(Triples(data), <<>>)

\* data[router][param][value] holds metric_key
HasMetric(data, router, param, value, metric_key) ==
    /\ HasKey(data, router)
    /\ HasKey(Get(data, router), param)
    /\ HasKey(Get(Get(data, router), param), value)
    /\ HasKey(Get(Get(Get(data, router), param), value), metric_key)

Leaf(data, router, param, value) == Get(Get(Get(data, router), param), value)

\* The bar chart of one parameter value and metric: the routers, sorted, that
\* hold a value that is not nan. np.isnan raises TypeError for a str.
BarChart(data, param, value, metric_key) ==
    LET names == SortedStrs(AllRouters(data))
        held == {i \in 1..Len(names) :
                    HasMetric(data, names[i], param, value, metric_key)}
        valid == {i \in held :
                    ~IsNan(Get(Leaf(data, names[i], param, value), metric_key))}
    IN [raises |-> \E i \in held :
                      Get(Leaf(data, names[i], param, value), metric_key).t = "str",
        router_names |-> Pick(names, valid),
        router_values |-> [j \in 1..Cardinality(valid) |->
                              Get(Leaf(data, Pick(names, valid)[j], param, value),
                                  metric_key)]]

\* The trend series of one router (index i of enumerate(sorted(all_routers))).
TrendPoints(data, router, param, param_values, metric_key) ==
    LET held == {j \in 1..Len(param_values) :
                    HasMetric(data, router, param, param_values[j], metric_key)}
        y(j) == Get(Leaf(data, router, param, param_values[j]), metric_key)
        valid == {j \in held : ~IsNan(y(j))}
    IN [raises |-> \E j \in held : y(j).t = "str",
        x |-> Pick(param_values, valid),
        y |-> [k \in 1..Cardinality(valid) |->
                  Get(Leaf(data, router, param, Pick(param_values, valid)[k]),
                      metric_key)]]

\* The loop over enumerate(sorted(all_routers)) of the trend chart, from
\* router n on (i = n - 1).
RECURSIVE TrendSeries(_, _, _, _, _, _)
TrendSeries(data, param, param_values, metric_key, n, plotted) ==
    LET names == SortedStrs(AllRouters(data))
    IN IF n > Len(names) THEN [raises |-> FALSE, series |-> plotted]
       ELSE IF ~HasKey(Get(data, names[n]), param)
            THEN TrendSeries(data, param, param_values, metric_key, n + 1, plotted)
            ELSE LET pts == TrendPoints(data, names[n], param, param_values,
                                        metric_key)
                 IN IF pts.raises THEN [raises |-> TRUE, series |-> plotted]
                    ELSE IF pts.x = <<>>
                         THEN TrendSeries(data, param, param_values, metric_key,
                                          n + 1, plotted)
                         ELSE TrendSeries(data, param, param_values, metric_key,
                                  n + 1,
                                  Append(plotted,
                                         Plotted(n - 1, names[n], pts.x, pts.y)))

\* The loop over the parameter values of the bar charts of one parameter and
\* metric, from value v on.
RECURSIVE BarCharts(_, _, _, _, _, _)
BarCharts(data, param, param_values, metric_key, v, saved) ==
    IF v > Len(param_values) THEN Returned(saved)
    ELSE LET bar == BarChart(data, param, param_values[v], metric_key)
         IN IF bar.raises THEN RaisedAfter("TypeError", saved)
            ELSE IF bar.router_values = <<>>
                 THEN BarCharts(data, param, param_values, metric_key, v + 1, saved)
                 ELSE BarCharts(data, param, param_values, metric_key, v + 1,
                          Append(saved,
                              [kind |-> "bar", param |-> param,
                               value |-> param_values[v], metric |-> metric_key,
                               series |-> <<[label |-> <<>>,
                                             x |-> bar.router_names,
                                             y |-> bar.router_values,
                                             style |-> 0, marker |-> 0,
                                             color |-> 0]>>]))

\* The two loops over param_metrics.items() and METRICS.items(), from pair n
\* on: the bar charts of the pair, then its trend chart.
RECURSIVE MultiRouterCharts(_, _, _, _)
MultiRouterCharts(data, pm, n, saved) ==
    IF n > Len(pm) * Len(METRICS) THEN Returned(saved)
    ELSE LET param == pm[((n - 1) \div Len(METRICS)) + 1].k
             param_values == SortedStrs(pm[((n - 1) \div Len(METRICS)) + 1].v)
             metric_key == METRICS[((n - 1) % Len(METRICS)) + 1]
             bars == BarCharts(data, param, param_values, metric_key, 1, saved)
         IN IF ~bars.ok THEN bars
            ELSE LET r == TrendSeries(data, param, param_values, metric_key,
                                      1, <<>>)
                 IN IF r.raises THEN RaisedAfter("TypeError", bars.val)
                    ELSE IF r.series = <<>>
                         THEN MultiRouterCharts(data, pm, n + 1, bars.val)
                         ELSE MultiRouterCharts(data, pm, n + 1,
                                  Append(bars.val,
                                      [kind |-> "trend", param |-> param,
                                       value |-> <<>>, metric |-> metric_key,
                                       series |-> r.series]))

create_multi_router_comparison(data) ==
    MultiRouterCharts(data, ParamMetrics(data), 1, <<>>)

----------------------------------------------------------------------------
(* Grapher.py: collect_data and plot_comparison. *)

\* collect_data over the glob result, from file i on: one row per file, the
\* parameters of its name then its metrics; parse_filename may raise.
RECURSIVE CollectRows(_, _, _)
CollectRows(found, i, rows) ==
    IF i > Len(found) THEN Returned(rows)
    ELSE LET p == parse_filename(found[i].name)
         IN IF ~p.ok THEN p
            ELSE CollectRows(found, i + 1,
                     Append(rows, Merge(p.val, found[i].metric_set)))

collect_data(found) == CollectRows(found, 1, <<>>)

\* df[col].unique(): the values of a column by first appearance
RECURSIVE Unique(_)
Unique(cells) ==
    IF cells = <<>> THEN <<>>
    ELSE LET before == Unique(SubSeq(cells, 1, Len(cells) - 1))
         IN IF cells[Len(cells)] \in Range(before) THEN before
            ELSE Append(before, cells[Len(cells)])

\* a < b for two cells of the same type, int or str
CellLess(a, b) == IF a.t = "str" THEN StrLess(a.s, b.s) ELSE a.n < b.n

\* cells that cannot be ordered: a str and a number
Unorderable(cells) ==
    /\ \E i \in 1..Len(cells) : cells[i].t = "str"
    /\ \E i \in 1..Len(cells) : cells[i].t \in {"int", "float", "nan"}

\* sorted(compare_values)
SortedValues(values) ==
    IF Len(values) > 1 /\ Unorderable(values) THEN Raised("TypeError")
    ELSE Returned(
        LET strs == {values[i].s : i \in {j \in 1..Len(values) : values[j].t = "str"}}
        IN IF Len(values) <= 1 THEN values
           ELSE [i \in 1..Len(values) |-> StrV(SortedStrs(strs)[i])])

\* row put into the sorted rows after every row that is not greater
RECURSIVE InsertRow(_, _, _)
InsertRow(sorted, row, col) ==
    IF sorted = <<>> THEN <<row>>
    ELSE IF CellLess(Get(row, col), Get(sorted[Len(sorted)], col))
         THEN Append(InsertRow(SubSeq(sorted, 1, Len(sorted) - 1), row, col),
                     sorted[Len(sorted)])
         ELSE Append(sorted, row)

RECURSIVE SortRows(_, _)
SortRows(rows, col) ==
    IF rows = <<>> THEN <<>>
    ELSE InsertRow(SortRows(SubSeq(rows, 1, Len(rows) - 1), col),
                   rows[Len(rows)], col)

\* filtered_df.sort_values(col): the rows with a value in order of it (a
\* stable sort), the rows with nan last
sort_values(rows, col) ==
    LET cells == Column(rows, col)
        with == Pick(rows, {i \in 1..Len(rows) : ~IsNan(cells[i])})
        without == Pick(rows, {i \in 1..Len(rows) : IsNan(cells[i])})
    IN IF Unorderable(Column(with, col)) THEN Raised("TypeError")
       ELSE Returned(SortRows(with, col) \o without)

\* The loop over enumerate(compare_values) of one metric, from value n on
\* (i = n - 1): every series is plotted as it is, nothing is filtered out.
RECURSIVE CompareSeries(_, _, _, _, _, _, _)
CompareSeries(rows, metric, x_axis_numeric, compare_by, compare_values, n, plotted) ==
    IF n > Len(compare_values) THEN [raises |-> FALSE, series |-> plotted]
    ELSE LET filtered_df ==
                 Pick(rows, {i \in 1..Len(rows) :
                                /\ ~IsNan(compare_values[n])
                                /\ Column(rows, compare_by)[i] = compare_values[n]})
             sorted == sort_values(filtered_df, x_axis_numeric)
         IN IF filtered_df = <<>>
            THEN CompareSeries(rows, metric, x_axis_numeric, compare_by,
                               compare_values, n + 1, plotted)
            ELSE IF ~sorted.ok THEN [raises |-> TRUE, series |-> plotted]
            ELSE CompareSeries(rows, metric, x_axis_numeric, compare_by,
                     compare_values, n + 1,
                     Append(plotted,
                            Plotted(n - 1, compare_values[n],
                                    Column(sorted.val, x_axis_numeric),
                                    Column(sorted.val, metric))))

\* The loop over metrics, from metric m on: a chart is saved for every metric
\* that is a column.
RECURSIVE CompareCharts(_, _, _, _, _, _, _)
CompareCharts(rows, x_axis, x_axis_numeric, compare_by, compare_values, m, saved) ==
    IF m > Len(METRICS) THEN Returned(saved)
    ELSE IF METRICS[m] \notin Range(Columns(rows))
         THEN CompareCharts(rows, x_axis, x_axis_numeric, compare_by,
                            compare_values, m + 1, saved)
         ELSE LET r == CompareSeries(rows, METRICS[m], x_axis_numeric,
                                     compare_by, compare_values, 1, <<>>)
              IN IF r.raises THEN RaisedAfter("TypeError", saved)
                 ELSE CompareCharts(rows, x_axis, x_axis_numeric, compare_by,
                          compare_values, m + 1,
                          Append(saved, [kind |-> "compare", param |-> x_axis,
                                         value |-> compare_by,
                                         metric |-> METRICS[m],
                                         series |-> r.series]))

\* plot_comparison(df, config.METRICS.keys(), x_axis, compare_by, ...);
\* df[compare_by] and sort_values raise KeyError for a column df has not.
plot_comparison(rows, x_axis, compare_by) ==
    LET columns == Range(Columns(rows))
        x_axis_numeric == IF x_axis \o S_numeric \in columns
                          THEN x_axis \o S_numeric ELSE x_axis
        compare_values == SortedValues(Unique(Column(rows, compare_by)))
    IN IF compare_by \notin columns THEN Raised("KeyError")
       ELSE IF ~compare_values.ok THEN compare_values
       ELSE IF x_axis_numeric \notin columns
                /\ \E m \in 1..Len(METRICS) : METRICS[m] \in columns
            THEN Raised("KeyError")
       ELSE CompareCharts(rows, x_axis, x_axis_numeric, compare_by,
                          compare_values.val, 1, <<>>)

----------------------------------------------------------------------------
(* SpecRead: one report file read, summarised and charted. *)

\* the name of the report file that is read
S_5M == <<"5","M">>
ReadFileName == ReportName(S_Algo, <<Segment(S_bufferSize, S_5M)>>)

ReadInit ==
    /\ lines \in Bodies
    /\ metrics = Unset
    /\ info = Unset
    /\ charts = Unset
    /\ ParseIdle
    /\ GroupIdle
    /\ ChartIdle

\* Grapher.collect_data: metrics = read_report_file(file)
ReadReportFile ==
    /\ metrics = Unset
    /\ metrics' = read_report_file(lines)
    /\ UNCHANGED <<lines, info, charts, parseVars, groupVars, chartVars>>

\* Grapher.main: save_data_summary(df), df the table of the one file
SaveDataSummary ==
    /\ metrics.ok
    /\ info = Unset
    /\ info' = save_data_summary(
                   <<Merge(parse_filename(ReadFileName).val, metrics.val)>>)
    /\ UNCHANGED <<lines, metrics, charts, parseVars, groupVars, chartVars>>

\* create_comparison_graphs(data, output_dir), data the table of the one file
CreateComparisonGraphs ==
    /\ metrics.ok
    /\ charts = Unset
    /\ charts' = create_comparison_graphs(
                     InsertFile(<<>>, ReportIdentity(ReadFileName), 1, metrics.val))
    /\ UNCHANGED <<lines, metrics, info, parseVars, groupVars, chartVars>>

\* create_multi_router_comparison(data, output_dir), data the table of the
\* one file
CreateMultiRouterComparison ==
    /\ metrics.ok
    /\ multi = Unset
    /\ multi' = create_multi_router_comparison(
                    InsertFile(<<>>, ReportIdentity(ReadFileName), 1, metrics.val))
    /\ UNCHANGED <<directory, files, aggregate, df, plots, args_x_axis,
                   args_compare_by, stage, parseVars, readVars, groupVars>>

ReadNext ==
    \/ ReadReportFile
    \/ SaveDataSummary
    \/ CreateComparisonGraphs
    \/ CreateMultiRouterComparison

SpecRead == ReadInit /\ [][ReadNext]_vars

----------------------------------------------------------------------------
(* Grouper.py: the grouping of report files. *)

\* all the orders a glob can return the entries of S in
RECURSIVE Orders(_)
Orders(S) ==
    IF S = {} THEN {<<>>}
    ELSE UNION {{<<x>> \o q : q \in Orders(S \ {x})} : x \in S}

\* Grouper.load_reports over the glob result, from entry i on: a ReportFile
\* for every entry that is a file
RECURSIVE LoadFrom(_, _)
LoadFrom(found, i) ==
    IF i > Len(found) THEN <<>>
    ELSE (IF found[i].is_file
          THEN <<[name |-> Basename(found[i].name),
                  metadata |-> extract_metadata(found[i].name).val]>>
          ELSE <<>>) \o LoadFrom(found, i + 1)

\* ReportFile.get_value: metadata.get(key), None for a key that is absent
get_value(report, key) == GetOr(report.metadata, key, NoneV)

\* keys = list(metadata.keys()); keys.remove("routingAlgorithm"); keys[-1]
\* of the first report. keys[-1] raises IndexError when no key is left.
DefaultGroupBy(rs) ==
    LET all == Keys(rs[1].metadata)
        first == CHOOSE i \in 1..Len(all) :
                    /\ all[i] = S_routingAlgorithm
                    /\ \A j \in 1..(i - 1) : all[j] # S_routingAlgorithm
        keys == Pick(all, (1..Len(all)) \ {first})
    IN IF keys = <<>> THEN Raised("IndexError")
       ELSE Returned(keys[Len(keys)])

\* The loop over self.reports, from report i on: groups[group_key] gets every
\* report with a non-empty value for key.
RECURSIVE GroupFrom(_, _, _, _)
GroupFrom(rs, key, i, groups) ==
    IF i > Len(rs) THEN groups
    ELSE LET value == get_value(rs[i], key)
         IN IF value.t = "str" /\ value.s # <<>>
            THEN LET group_key == key \o At \o value.s
                 IN GroupFrom(rs, key, i + 1,
                        DictSet(groups, group_key,
                            Append(GetOr(groups, group_key, <<>>), rs[i])))
            ELSE GroupFrom(rs, key, i + 1, groups)

\* CopiesOf with a copy loop that copies only the first report of every group
CopiesOf_FirstOfGroup(groups) ==
    {<<groups[g].k, groups[g].v[1].name>> : g \in 1..Len(groups)}

\* the copies of the loop over groups.items(): <<group directory, file name>>
CopiesOf(groups) ==
    UNION {{<<groups[g].k, groups[g].v[r].name>> : r \in 1..Len(groups[g].v)} :
               g \in 1..Len(groups)}

----------------------------------------------------------------------------
(* The report directories of the grouper. *)

S_A == <<"A">>
S_B == <<"B">>
S_1 == <<"1">>
S_2 == <<"2">>
S_10M == <<"1","0","M">>
S_zz == <<"z","z">>

GroupNames ==
    {ReportName(S_A, <<Segment(S_bufferSize, S_5M), Segment(S_dropPolicy, S_1)>>),
     ReportName(S_B, <<Segment(S_dropPolicy, S_2), Segment(S_bufferSize, S_5M)>>),
     ReportName(S_A, <<>>),
     ReportName(S_A, <<Segment(S_bufferSize, <<>>), Segment(S_dropPolicy, S_1)>>),
     ReportName(S_B, <<<<"x">>>>),
     ReportName(S_A, <<Segment(S_bufferSize, S_10M)>>)}

\* a directory whose name matches the glob
SubdirName == ReportName(<<"d">>, <<>>)

\* the subsets of S with at most n elements
UpTo(S, n) == {T \in SUBSET S : Cardinality(T) <= n}

\* the entries an existing input directory can hold
Directories ==
    {{[name |-> f, is_file |-> TRUE] : f \in fs} \cup sub :
        fs \in UpTo(GroupNames, MaxFiles),
        sub \in {{}, {[name |-> SubdirName, is_file |-> FALSE]}}}

\* --group-by: absent, a key of the files, or a key of no file
GroupByArgs == {NoneV, StrV(S_bufferSize), StrV(S_dropPolicy), StrV(S_zz)}

----------------------------------------------------------------------------
(* SpecGroup: Grouper.main. *)

GroupInit ==
    /\ input_dir \in
          {[exists |-> FALSE, entries |-> {}]}
              \cup {[exists |-> TRUE, entries |-> d] : d \in Directories}
    /\ group_by \in GroupByArgs
    /\ reports = <<>>
    /\ created = {}
    /\ copied = {}
    /\ result = Unset
    /\ pc = "main"
    /\ ParseIdle
    /\ ReadIdle
    /\ ChartIdle

\* main: the input directory does not exist: return 1
MissingInput ==
    /\ pc = "main"
    /\ ~input_dir.exists
    /\ result' = Returned(1)
    /\ pc' = "done"
    /\ UNCHANGED <<input_dir, group_by, reports, created, copied, parseVars, readVars, chartVars>>

\* main: args.output_dir.mkdir(exist_ok=True, parents=True)
MakeOutputDir ==
    /\ pc = "main"
    /\ input_dir.exists
    /\ created' = created \cup {<<>>}
    /\ pc' = "load"
    /\ UNCHANGED <<input_dir, group_by, reports, copied, result, parseVars, readVars, chartVars>>

\* Grouper.load_reports, the glob returning the entries in some order
LoadReports ==
    /\ pc = "load"
    /\ \E found \in Orders(input_dir.entries) :
          reports' = LoadFrom(found, 1)
    /\ pc' = "group"
    /\ UNCHANGED <<input_dir, group_by, created, copied, result, parseVars, readVars, chartVars>>

\* Grouper.group_reports, and main's return 0 after it
GroupReports ==
    /\ pc = "group"
    /\ pc' = "done"
    /\ IF reports = <<>>
       THEN /\ result' = Returned(0)
            /\ UNCHANGED <<group_by, created, copied>>
       ELSE LET key == IF group_by = NoneV THEN DefaultGroupBy(reports)
                       ELSE Returned(group_by.s)
            IN IF ~key.ok
               THEN /\ result' = key
                    /\ UNCHANGED <<group_by, created, copied>>
               ELSE LET groups == GroupFrom(reports, key.val, 1, <<>>)
                    IN /\ group_by' = StrV(key.val)
                       /\ created' = created \cup Range(Keys(groups))
                       /\ copied' = copied \cup CopiesOf(groups)
                       /\ result' = Returned(0)
    /\ UNCHANGED <<input_dir, reports, parseVars, readVars, chartVars>>

GroupNext == MissingInput \/ MakeOutputDir \/ LoadReports \/ GroupReports

SpecGroup == GroupInit /\ [][GroupNext]_vars

----------------------------------------------------------------------------
(* The report directories that are charted. *)

ChartNames ==
    {ReportName(r, <<Segment(S_bufferSize, b), Segment(S_dropPolicy, d)>>) :
        r \in {S_A, S_B}, b \in {S_5M, S_10M}, d \in {S_1, S_2}}

\* metric sets the reader returns: for the lines delivered: 42 and
\* delivery_prob: NaN, for delivered: 7 and delivery_prob: 1, for created: x
MetricSets ==
    {<<[k |-> S_delivered, v |-> FloatV(42)], [k |-> S_delivery_prob, v |-> NanV]>>,
     <<[k |-> S_delivered, v |-> FloatV(7)],
       [k |-> S_delivery_prob, v |-> FloatV(1)]>>,
     <<[k |-> S_created, v |-> StrV(<<"x">>)]>>}

\* directories of at most MaxReports report files with their metric sets
ChartDirectories ==
    UNION {{{[name |-> f, metric_set |-> ms[f]] : f \in names} :
               ms \in [names -> MetricSets]} :
           names \in UpTo(ChartNames, MaxReports)}

\* the aggregator over the glob result, from file i on (spec 4.3)
RECURSIVE AggregateFrom(_, _, _)
AggregateFrom(found, i, table) ==
    IF i > Len(found) THEN table
    ELSE AggregateFrom(found, i + 1,
             InsertFile(table, ReportIdentity(found[i].name), 1,
                        found[i].metric_set))

process_all_reports(found) == AggregateFrom(found, 1, <<>>)

----------------------------------------------------------------------------
(* SpecChart: a directory of reports aggregated and charted, in report mode
   (the AggregateTable and the charts of helpers.py) or in compare mode
   (Grapher.main). *)

ChartInit ==
    /\ directory \in ChartDirectories
    /\ files = <<>>
    /\ aggregate = <<>>
    /\ df = Unset
    /\ multi = Unset
    /\ plots = Unset
    /\ args_x_axis = S_bufferSize
    /\ args_compare_by \in {S_dropPolicy, S_routingAlgorithm}
    /\ stage = "start"
    /\ ParseIdle
    /\ ReadIdle
    /\ GroupIdle

\* find_report_files, glob.glob: the files in the order the directory gives
FindReportFiles ==
    /\ stage = "start"
    /\ files' \in Orders(directory)
    /\ stage' = "found"
    /\ UNCHANGED <<directory, aggregate, df, multi, plots, args_x_axis, args_compare_by,
                   parseVars, readVars, groupVars>>

\* report mode: the aggregator builds the AggregateTable
ProcessAllReports ==
    /\ stage = "found"
    /\ aggregate' = process_all_reports(files)
    /\ stage' = "report"
    /\ UNCHANGED <<directory, files, df, multi, plots, args_x_axis, args_compare_by,
                   parseVars, readVars, groupVars>>

\* report mode: create_comparison_graphs(data, output_dir)
ReportComparisonGraphs ==
    /\ stage = "report"
    /\ charts = Unset
    /\ charts' = create_comparison_graphs(aggregate)
    /\ UNCHANGED <<lines, metrics, info, parseVars, groupVars, chartVars>>

\* report mode: create_multi_router_comparison(data, output_dir)
ReportMultiRouterComparison ==
    /\ stage = "report"
    /\ multi = Unset
    /\ multi' = create_multi_router_comparison(aggregate)
    /\ UNCHANGED <<directory, files, aggregate, df, plots, args_x_axis, args_compare_by, stage,
                   parseVars, readVars, groupVars>>

\* compare mode, Grapher.main: df = collect_data(input_dir)
CollectData ==
    /\ stage = "found"
    /\ df' = collect_data(files)
    /\ stage' = "compare"
    /\ UNCHANGED <<directory, files, aggregate, multi, plots, args_x_axis, args_compare_by,
                   parseVars, readVars, groupVars>>

\* compare mode, Grapher.main: save_data_summary(df, output_dir)
CompareSaveSummary ==
    /\ stage = "compare"
    /\ df.ok
    /\ info' = save_data_summary(df.val)
    /\ stage' = "summarised"
    /\ UNCHANGED <<lines, metrics, charts, parseVars, groupVars,
                   directory, files, aggregate, df, multi, plots, args_x_axis, args_compare_by>>

\* compare mode, Grapher.main: plot_comparison(df, metrics, args_x_axis, args_compare_by)
PlotComparison ==
    /\ stage = "summarised"
    /\ info.ok
    /\ plots' = plot_comparison(df.val, args_x_axis, args_compare_by)
    /\ stage' = "done"
    /\ UNCHANGED <<directory, files, aggregate, df, multi, args_x_axis, args_compare_by,
                   parseVars, readVars, groupVars>>

ChartNext ==
    \/ FindReportFiles
    \/ ProcessAllReports
    \/ ReportComparisonGraphs
    \/ ReportMultiRouterComparison
    \/ CollectData
    \/ CompareSaveSummary
    \/ PlotComparison

SpecChart == ChartInit /\ [][ChartNext]_vars

----------------------------------------------------------------------------
(* Claims about the filename parser, checked under SpecParse. *)

\* how a filename of Filenames was put together: <<dir, algo, segs>>
Inputs == DirPrefixes \X Algos \X SeqsUpTo(Segments, MaxParams)

InputPath == [in \in Inputs |-> in[1] \o ReportName(in[2], in[3])]

\* the text before and after the first '@' of a segment that has one
SegKey(seg) == SubSeq(seg, 1, Find(seg, At) - 1)
SegValue(seg) == SubSeq(seg, Find(seg, At) + 1, Len(seg))

\* A well-formed filename: Algo, then key@value segments with distinct keys
\* and non-empty values that hold no '@'.
WellFormed(in) ==
    /\ in[2] = S_Algo
    /\ \A i \in 1..Len(in[3]) :
          /\ Contains(in[3][i], At)
          /\ SegValue(in[3][i]) # <<>>
          /\ ~Contains(SegValue(in[3][i]), At)
          /\ \A j \in 1..Len(in[3]) :
                SegKey(in[3][i]) = SegKey(in[3][j]) => i = j

\* the keys of the mapping d that end in _numeric
NumericDerived(d) ==
    {d[i].k : i \in {j \in 1..Len(d) :
        /\ Len(d[j].k) > Len(S_numeric)
        /\ SubSeq(d[j].k, Len(d[j].k) - Len(S_numeric) + 1, Len(d[j].k)) = S_numeric}}

\* What C1 says parse_filename returns for the well-formed input in.
ParsedAsSpecified(in, r) ==
    /\ r.ok
    /\ HasKey(r.val, S_routingAlgorithm)
    /\ Get(r.val, S_routingAlgorithm) = StrV(in[2])
    /\ \A i \in 1..Len(in[3]) :
          /\ HasKey(r.val, SegKey(in[3][i]))
          /\ Get(r.val, SegKey(in[3][i])) = StrV(SegValue(in[3][i]))
    /\ NumericDerived(r.val) \subseteq
          {SegKey(in[3][i]) \o S_numeric : i \in 1..Len(in[3])}
              \cap {k \o S_numeric : k \in NumericKeys}
    /\ \A i \in 1..Len(in[3]) :
          LET k == SegKey(in[3][i])
              v == SegValue(in[3][i])
          IN /\ (k = S_bufferSize /\ LeadingDigits(v) # <<>>)
                    => /\ HasKey(r.val, k \o S_numeric)
                       /\ Get(r.val, k \o S_numeric) = IntV(IntOf(LeadingDigits(v)))
             /\ (k = S_dropPolicy /\ IsDigit(v))
                    => /\ HasKey(r.val, k \o S_numeric)
                       /\ Get(r.val, k \o S_numeric) = IntV(IntOf(v))

(* C1: for every well-formed filename Algo-k1@v1-...-kN@vN_MessageStatsReport.txt
   with N >= 0, parse_filename returns routingAlgorithm = Algo, ki = vi as
   strings, and <key>_numeric entries only for keys of the coercion table, with
   the integer of the leading digits (bufferSize) or of the digits (dropPolicy). *)
C1_WellFormedParsed ==
    params # Unset =>
        \A in \in Inputs :
            (InputPath[in] = filename /\ WellFormed(in))
                => ParsedAsSpecified(in, params)

\* The same with at least one key@value segment (N >= 1): holds of the code.
C1_WellFormedParsedWithSegments ==
    params # Unset =>
        \A in \in Inputs :
            (InputPath[in] = filename /\ WellFormed(in) /\ Len(in[3]) >= 1)
                => ParsedAsSpecified(in, params)

\* the last segment of segs with key k and an '@'
LastWithKey(segs, k) ==
    CHOOSE i \in 1..Len(segs) :
        /\ Contains(segs[i], At) /\ SegKey(segs[i]) = k
        /\ \A j \in 1..Len(segs) :
              (Contains(segs[j], At) /\ SegKey(segs[j]) = k) => j <= i

(* C2: parse_filename never raises: every token after the first is split on
   its first '@' only (the value may hold an '@'), tokens without '@' are
   ignored, and a mapping is returned. *)
C2_ParserNeverRaises ==
    params # Unset =>
        /\ params.ok
        /\ \A in \in Inputs :
              InputPath[in] = filename =>
                 \A i \in 1..Len(in[3]) :
                    Contains(in[3][i], At) =>
                       /\ HasKey(params.val, SegKey(in[3][i]))
                       /\ Get(params.val, SegKey(in[3][i])) =
                             StrV(SegValue(in[3][LastWithKey(in[3], SegKey(in[3][i]))]))

\* the value x of the coercion-table key k can be coerced to an integer
Coercible(k, x) ==
    IF k = S_bufferSize THEN x # <<>> /\ x[1] \in Digits ELSE IsDigit(x)

(* C3: when the coercion of a coercion-table parameter fails, its
   <key>_numeric entry is absent from the parsed mapping, and every
   <key>_numeric entry that is present holds an integer. *)
C3_FailedCoercionOmitted ==
    params.ok =>
        \A k \in NumericKeys :
            HasKey(params.val, k) =>
                IF Coercible(k, Get(params.val, k).s)
                THEN /\ HasKey(params.val, k \o S_numeric)
                     /\ Get(params.val, k \o S_numeric).t = "int"
                ELSE ~HasKey(params.val, k \o S_numeric)

----------------------------------------------------------------------------
(* Claims about the report reader, checked under SpecRead. *)

\* s starts with pre
StartsWith(s, pre) == Len(s) >= Len(pre) /\ SubSeq(s, 1, Len(pre)) = pre

\* the number of times sep occurs in s, counted from the left without overlap
Occurrences(s, sep) == Len(Split(s, sep)) - 1

\* the lines after the first that give key k: "k: text"
LinesFor(k) ==
    {i \in 2..Len(lines) : StartsWith(Strip(lines[i]), k \o ColonSpace)}

\* the text that the last line for k gives it
LastTextFor(k) ==
    LET l == Strip(lines[MaxOf(LinesFor(k))])
    IN SubSeq(l, Len(k) + Len(ColonSpace) + 1, Len(l))

\* the report body gives metric k the text NaN
TextIsNaN(k) == LinesFor(k) # {} /\ Lower(LastTextFor(k)) = S_nan

(* C4: reading a report body never fails because of the content of a line:
   every line after the first that is not in single-separator key: value form,
   a line with several ': ' included, is skipped or parsed, and the other
   lines are still processed. *)
C4_ReaderNeverFails ==
    metrics # Unset =>
        /\ metrics.ok
        /\ \A i \in 2..Len(lines) :
              Occurrences(Strip(lines[i]), ColonSpace) = 1 =>
                  HasKey(metrics.val, Split(Strip(lines[i]), ColonSpace)[1])

\* the body of C5: header, delivered: 42, delivery_prob: NaN, a malformed line
ExampleBody == <<L_header, L_delivered42, L_probNaN, L_garbage>>

(* C5: a known metric whose text in the report body is NaN is read as the
   float nan, which the not-a-number test detects: the summary's has_nan is
   true and no series of the line, bar and trend charts of the aggregate table
   holds a point of it. For the body [header,
   delivered: 42, delivery_prob: NaN, garbage_line_no_colon] the reader gives
   delivered = 42.0 and delivery_prob = nan and nothing for the malformed line,
   the summary is written with has_nan for delivery_prob, and the only chart
   series are those of delivered. *)
C5_NaNFlaggedMissing ==
    /\ \A m \in 1..Len(METRICS) :
          TextIsNaN(METRICS[m]) =>
             /\ metrics.ok =>
                   /\ HasKey(metrics.val, METRICS[m])
                   /\ IsNan(Get(metrics.val, METRICS[m]))
             /\ info.ok =>
                   /\ HasKey(info.val, METRICS[m])
                   /\ Get(info.val, METRICS[m]).has_nan
                   /\ Get(info.val, METRICS[m]).min = NoneV
             /\ \A c \in 1..Len(charts.val) :
                   charts.val[c].metric # METRICS[m]
             /\ \A c \in 1..Len(multi.val) :
                   multi.val[c].metric # METRICS[m]
    /\ lines = ExampleBody =>
          /\ metrics # Unset =>
                metrics = Returned(<<[k |-> S_delivered, v |-> FloatV(42)],
                                     [k |-> S_delivery_prob, v |-> NanV]>>)
          /\ info # Unset =>
                /\ info.ok
                /\ Get(info.val, S_delivery_prob).has_nan
                /\ ~Get(info.val, S_delivered).has_nan
          /\ charts # Unset =>
                /\ charts.ok
                /\ Len(charts.val) = 1
                /\ charts.val[1].metric = S_delivered
                /\ Len(charts.val[1].series) = 1
                /\ charts.val[1].series[1].x = <<S_5M>>
                /\ charts.val[1].series[1].y = <<FloatV(42)>>
          /\ multi # Unset =>
                /\ multi.ok
                /\ Len(multi.val) = 2
                /\ \A c \in 1..2 :
                      /\ multi.val[c].metric = S_delivered
                      /\ multi.val[c].series[1].y = <<FloatV(42)>>

\* The example body has been read, summarised and charted.
C5_Witness ==
    /\ lines = ExampleBody
    /\ metrics.ok /\ info.ok /\ charts.ok /\ multi.ok
    /\ IsNan(Get(metrics.val, S_delivery_prob))

----------------------------------------------------------------------------
(* Claims about the grouper, checked under SpecGroup. *)

\* the '-' separated tokens of a report file name after the first, the report
\* suffix dropped, that hold an '@'
ParamTokens(name) ==
    LET stem == SubSeq(name, 1, Len(name) - Len(ReportSuffix))
        tokens == Split(stem, Hyphen)
    IN Pick(tokens, {i \in 2..Len(tokens) : Contains(tokens[i], At)})

(* C7: in grouping mode with group_by unset and at least one report
   discovered, the run completes without error, whatever the first discovered
   file is (a file with no key@value segment included), and group_by becomes
   the key of the last key@value segment of the first discovered file. *)
C7_DefaultGroupBy ==
    [][(pc = "group" /\ group_by = NoneV /\ reports # <<>>) =>
          /\ result'.ok
          /\ result'.val = 0
          /\ ParamTokens(reports[1].name) # <<>> =>
                group_by' = StrV(SegKey(ParamTokens(reports[1].name)
                                           [Len(ParamTokens(reports[1].name))]))
      ]_vars

\* The same when the first discovered file has a key@value segment: holds.
C7_DefaultGroupByWithSegment ==
    [][(/\ pc = "group" /\ group_by = NoneV /\ reports # <<>>
        /\ ParamTokens(reports[1].name) # <<>>) =>
          /\ result'.ok
          /\ result'.val = 0
          /\ group_by' = StrV(SegKey(ParamTokens(reports[1].name)
                                        [Len(ParamTokens(reports[1].name))]))
      ]_vars

----------------------------------------------------------------------------
(* Claims about the aggregation and the charts, checked under SpecChart. *)

\* every chart written so far, by any of the chart-producing operations
SavedCharts == Range(charts.val) \cup Range(multi.val) \cup Range(plots.val)

\* the line charts among them
LineCharts == {c \in SavedCharts : c.kind \in {"comparison", "trend", "compare"}}

\* a chart with a point left after the missing (nan) ones are filtered out
HasValidPoint(c) ==
    \E i \in 1..Len(c.series) :
        \E j \in 1..Len(c.series[i].y) : ~IsNan(c.series[i].y[j])

(* C6: no chart-producing operation (line comparison, bar comparison,
   all-routers trend, compare-mode plot) writes an image for a (parameter,
   metric) pair in which every series is empty once the missing (nan) points
   are filtered out. *)
C6_NoEmptyChart == \A c \in SavedCharts : HasValidPoint(c)

\* The same for the charts of helpers.py alone: holds.
C6_NoEmptyChartOfHelpers ==
    \A c \in Range(charts.val) \cup Range(multi.val) : HasValidPoint(c)

\* the leaves of an AggregateTable: <<router, parameter, value, metric set>>
Leaves(table) ==
    UNION {UNION {{<<table[r].k, table[r].v[q].k, table[r].v[q].v[v].k,
                     table[r].v[q].v[v].v>> : v \in 1..Len(table[r].v[q].v)} :
                  q \in 1..Len(table[r].v)} :
           r \in 1..Len(table)}

(* C8: the aggregator builds the same AggregateTable from an unchanged
   directory whatever order the directory enumeration returns its files in:
   the table of this run holds the leaves that a run over any other
   enumeration order of the same files holds. *)
C8_AggregateOrderIndependent ==
    stage = "report" =>
        \A other \in Orders(directory) :
            Leaves(aggregate) = Leaves(process_all_reports(other))

\* the place of x in the sequence q, from 0
IndexIn(q, x) == (CHOOSE i \in 1..Len(q) : q[i] = x) - 1

(* C9: in every line chart over routers the line style, marker and color of a
   router's series are those at the index of the router in the sorted router
   names, taken cyclically from the palettes. *)
C9_StyleBySortedRouter ==
    \A c \in LineCharts :
        (c.kind \in {"comparison", "trend"}) =>
            \A i \in 1..Len(c.series) :
                LET n == IndexIn(SortedStrs(AllRouters(aggregate)),
                                 c.series[i].label)
                IN /\ c.series[i].style = n % NumLineStyles
                   /\ c.series[i].marker = n % NumMarkers
                   /\ c.series[i].color = n % NumColors

\* The same for the all-routers trend charts alone: holds.
C9_StyleBySortedRouterInTrend ==
    \A c \in Range(multi.val) :
        c.kind = "trend" =>
            \A i \in 1..Len(c.series) :
                LET n == IndexIn(SortedStrs(AllRouters(aggregate)),
                                 c.series[i].label)
                IN /\ c.series[i].style = n % NumLineStyles
                   /\ c.series[i].marker = n % NumMarkers
                   /\ c.series[i].color = n % NumColors

\* the numeric value of an x of a series: the integer itself, or the integer
\* of the leading digits of the parameter's string value
NumericOf(x) == IF x.t = "int" THEN x.n ELSE IntOf(LeadingDigits(x.s))

\* the x of a series as values: the keys of the table are bare str
XValues(c, i) ==
    [j \in 1..Len(c.series[i].x) |->
        IF c.kind = "compare" THEN c.series[i].x[j] ELSE StrV(c.series[i].x[j])]

(* C10: in every line chart over the buffer size the points of each series
   are in the order of the numeric value of the parameter (5M before 10M),
   and in compare mode the x of a series are the values of the
   <x_axis>_numeric column when that column is present. *)
C10_NumericOrder ==
    \A c \in LineCharts :
        c.param = S_bufferSize =>
            \A i \in 1..Len(c.series) :
                /\ \A j \in 1..(Len(c.series[i].x) - 1) :
                      NumericOf(XValues(c, i)[j]) <= NumericOf(XValues(c, i)[j + 1])
                /\ (c.kind = "compare"
                      /\ S_bufferSize \o S_numeric \in Range(Columns(df.val))) =>
                      \A j \in 1..Len(c.series[i].x) : c.series[i].x[j].t = "int"

\* The same for the compare-mode charts alone: holds.
C10_NumericOrderInCompareMode ==
    \A c \in Range(plots.val) :
        c.param = S_bufferSize =>
            \A i \in 1..Len(c.series) :
                /\ \A j \in 1..(Len(c.series[i].x) - 1) :
                      NumericOf(XValues(c, i)[j]) <= NumericOf(XValues(c, i)[j + 1])
                /\ S_bufferSize \o S_numeric \in Range(Columns(df.val)) =>
                      \A j \in 1..Len(c.series[i].x) : c.series[i].x[j].t = "int"

----------------------------------------------------------------------------
(* Claims about the grouping entry point, checked under SpecGroup. *)

\* the first loaded report has no key left once routingAlgorithm is removed
FirstReportHasNoKey ==
    /\ reports # <<>>
    /\ \A i \in 1..Len(reports[1].metadata) :
          reports[1].metadata[i].k = S_routingAlgorithm

(* C11: Grouper.main returns 1 when the input directory does not exist, and
   then no output directory is created and no file is copied; it returns 0
   whenever the input directory exists, a directory with no report file
   included. *)
C11_ExitCodes ==
    pc = "done" =>
       /\ ~input_dir.exists =>
             /\ result = Returned(1)
             /\ created = {}
             /\ copied = {}
       /\ input_dir.exists => result = Returned(0)

\* The same for the runs that do not take the default key from a first report
\* without a key: holds.
C11_ExitCodesWithKey ==
    (pc = "done" /\ ~(group_by = NoneV /\ FirstReportHasNoKey)) =>
       /\ ~input_dir.exists =>
             /\ result = Returned(1)
             /\ created = {}
             /\ copied = {}
       /\ input_dir.exists => result = Returned(0)

----------------------------------------------------------------------------
(* Claims about the mapping the report reader returns, checked under
   SpecRead. *)

\* the key of line i: what stands before its first ': '
KeyOfLine(i) == Split(Strip(lines[i]), ColonSpace)[1]

\* the lines after the first that contain the separator
SeparatorLines == {i \in 2..Len(lines) : Contains(Strip(lines[i]), ColonSpace)}

\* the value a text stands for: its float, or the raw string
ValueOfText(text) ==
    IF PyFloat(text).ok THEN PyFloat(text).val ELSE StrV(text)

\* metrics is the mapping of the lines after the first
MappingOfLaterLines ==
    /\ metrics.ok
    /\ Range(Keys(metrics.val)) = {KeyOfLine(i) : i \in SeparatorLines}
    /\ \A i \in SeparatorLines :
          Get(metrics.val, KeyOfLine(i)) = ValueOfText(LastTextFor(KeyOfLine(i)))

(* C12: the reader skips the first line of the body, a first line in
   key: value form included, and returns the mapping that has exactly the keys
   of the later lines that contain ': ', each with the float of its value or,
   when the value is no float, the raw string, the last line of a key giving
   its value. *)
C12_MappingOfLaterLines ==
    metrics # Unset => MappingOfLaterLines

\* The same for the bodies whose later lines hold ': ' at most once: holds.
C12_MappingOfSingleSeparatorLines ==
    (/\ metrics # Unset
     /\ \A i \in 2..Len(lines) : Occurrences(Strip(lines[i]), ColonSpace) <= 1)
        => MappingOfLaterLines

----------------------------------------------------------------------------
(* Claims about the copies of a grouping run, checked under SpecGroup. *)

\* the value the filename name gives key g: the text after the first '@' of
\* the last segment whose key is g, the empty string when there is none
FilenameValue(name, g) ==
    LET tokens == ParamTokens(name)
        with == {i \in 1..Len(tokens) : SegKey(tokens[i]) = g}
    IN IF with = {} THEN <<>> ELSE SegValue(tokens[MaxOf(with)])

\* the group directories the file name was copied into
CopiedInto(name) == {c[1] : c \in {d \in copied : d[2] = name}}

\* the report files of the input directory
ReportFilesOf(dir) == {Basename(e.name) : e \in {f \in dir.entries : f.is_file}}

\* a run that ended with group_by = g
GroupedBy(g) == pc = "done" /\ result = Returned(0) /\ group_by = StrV(g)

GroupedAsClaimed(g) ==
    /\ {reports[i].name : i \in 1..Len(reports)} = ReportFilesOf(input_dir)
    /\ \A name \in ReportFilesOf(input_dir) :
          CopiedInto(name) =
             IF FilenameValue(name, g) # <<>>
             THEN {g \o At \o FilenameValue(name, g)} ELSE {}
    /\ \A c \in copied : c[2] \in ReportFilesOf(input_dir)
    /\ \A d \in created \ {<<>>} : \E c \in copied : c[1] = d

(* C13: after a grouping run with group_by = g, every loaded report file whose
   filename has a non-empty value v for g is copied under its own name into
   exactly one subdirectory of the output directory, the one named g@v; a file
   with no value or an empty value for g is copied nowhere; no group directory
   is created that receives no file; and no step removes or changes an entry
   of the input directory. *)
C13_GroupedCopies ==
    /\ [](\A g \in {S_bufferSize, S_dropPolicy, S_zz} :
              GroupedBy(g) => GroupedAsClaimed(g))
    /\ [][input_dir' = input_dir]_vars

\* a run by bufferSize that put two files into one group directory, put one
\* file with an empty value nowhere, and made no other directory
C13_Witness ==
    /\ GroupedBy(S_bufferSize)
    /\ \E a \in ReportFilesOf(input_dir), b \in ReportFilesOf(input_dir) :
          /\ a # b
          /\ CopiedInto(a) = {S_bufferSize \o At \o S_5M}
          /\ CopiedInto(b) = CopiedInto(a)
    /\ \E n \in ReportFilesOf(input_dir) : CopiedInto(n) = {}

----------------------------------------------------------------------------
(* Claims about the two filename parsers together, checked under SpecParse. *)

\* s ends with suf
EndsWith(s, suf) ==
    Len(s) >= Len(suf) /\ SubSeq(s, Len(s) - Len(suf) + 1, Len(s)) = suf

\* the entries of a mapping, those with a <key>_numeric key left out
StringEntries(d) ==
    {d[i] : i \in {j \in 1..Len(d) : ~EndsWith(d[j].k, S_numeric)}}

\* both parsers have run on filename and give the same string-valued mapping
ParsersAgree ==
    /\ params.ok
    /\ metadata.ok
    /\ StringEntries(params.val) = Range(metadata.val)
    /\ filename = ReportName(S_Algo, <<>>) =>
          /\ Get(params.val, S_routingAlgorithm) = StrV(S_Algo)
          /\ Get(metadata.val, S_routingAlgorithm) = StrV(S_Algo)

\* the tokens of the base name of filename, its report suffix dropped
StemTokens ==
    LET name == Basename(filename)
    IN Split(SubSeq(name, 1, Len(name) - Len(ReportSuffix)), Hyphen)

(* C14: for every report filename, parse_filename of Grapher, its
   <key>_numeric entries removed, and the metadata extraction of Grouper's
   ReportFile return the same string-valued mapping; for
   Algo_MessageStatsReport.txt both give routingAlgorithm = "Algo". *)
C14_ParsersAgree ==
    (params # Unset /\ metadata # Unset) => ParsersAgree

\* The same for the filenames with a parameter token and no token with more
\* than one '@': holds.
C14_ParsersAgreeOnSimpleNames ==
    (/\ params # Unset /\ metadata # Unset
     /\ Len(StemTokens) >= 2
     /\ \A i \in 2..Len(StemTokens) : Occurrences(StemTokens[i], At) <= 1)
        => ParsersAgree

----------------------------------------------------------------------------
(* Claims about chart generation on raw-string metric values, checked under
   SpecChart. *)

\* a report of the directory gives a known metric a raw string
HasStringMetric ==
    \E f \in directory :
       \E i \in 1..Len(f.metric_set) :
          /\ f.metric_set[i].k \in Range(METRICS)
          /\ f.metric_set[i].v.t = "str"

\* the charts of the aggregate table were generated without error, and no
\* series holds a point whose y is a string
ChartsComplete ==
    /\ charts # Unset =>
          /\ charts.ok
          /\ \A c \in Range(charts.val) :
                \A i \in 1..Len(c.series) :
                   \A j \in 1..Len(c.series[i].y) : c.series[i].y[j].t # "str"
    /\ multi # Unset =>
          /\ multi.ok
          /\ \A c \in Range(multi.val) :
                \A i \in 1..Len(c.series) :
                   \A j \in 1..Len(c.series[i].y) : c.series[i].y[j].t # "str"

(* C15: create_comparison_graphs and create_multi_router_comparison complete
   without error on every aggregate table whose leaves are metric mappings
   the report reader can return: a known metric whose value is a raw string
   gives no data point and is left out of the series, and the run goes on. *)
C15_ChartsComplete ==
    stage = "report" => ChartsComplete

\* The same for the directories none of whose reports gives a known metric a
\* raw string: holds.
C15_ChartsCompleteOnNumbers ==
    (stage = "report" /\ ~HasStringMetric) => ChartsComplete

============================================================================
